---- MODULE Spec2Model ----
(***************************************************************************)
(* Job pipeline of the Gaussian-splat reconstruction backend: the upload   *)
(* handler (api/jobs.py), the orchestrator process_job (core/pipeline.py)  *)
(* and the JSON-file job store (jobs/job_manager.py).                      *)
(*                                                                         *)
(* Conventions.  A Python Optional[T] is a sequence: <<>> is None and      *)
(* <<x>> is the value x.  progress is kept in hundredths (0.3 is 30) and   *)
(* durations in tenths of a second (3.0 s is 30), so that the float        *)
(* comparisons of the source become integer comparisons.  A Job object is  *)
(* shared by reference between the handler/pipeline and JobManager.jobs,   *)
(* so jobs[j] is both the local `job` and the in-memory store entry.       *)
(***************************************************************************)
EXTENDS Integers, Sequences, FiniteSets, TLC

VARIABLES
    compressOutput, \* settings.COMPRESS_OUTPUT
    jobs,           \* JobManager.jobs: job_id -> Job (the live objects)
    file,           \* the durable jobs.json: [intact, data]
    faults,         \* number of failed writes of jobs.json so far
    pc,             \* per job id: position of its upload handler / process_job
    hist,           \* per job id: the (status, progress) of every create/update
    invoked,        \* per job id: the stage functions called, in order
    produced,       \* artifact files on disk: <<job_id, kind>> -> contents
    failedStage,    \* per job id: the hard stage that failed, or "none"
    softFailed,     \* per job id: the soft stages that failed
    issued,         \* number of job ids uuid4 has produced so far
    now,            \* datetime.now(): the wall clock
    last,           \* the latest call on the store and what it returned
    model_dir,      \* per job id: the files under MODELS_DIR/<job_id>, as paths
    thread,         \* the task that occupies the event loop's thread, if any
    procs,          \* the child processes started so far
    tasks           \* per task: its call on a process supervisor

supervisorVars == <<thread, procs, tasks>>

vars == <<compressOutput, jobs, file, faults, pc, hist, invoked, produced, failedStage, softFailed,
          issued, now, last, model_dir, supervisorVars>>

----------------------------------------------------------------------------
\* Bounds of the model.

MaxJobs == 1
MaxSaveFaults == 1
MaxStoreJobs == 2
MaxClock == 1

JobIds == 1..MaxJobs

----------------------------------------------------------------------------
\* core/models.py, core/config.py

None == <<>>
Some(x) == <<x>>

UPLOADED == "uploaded"
VALIDATING == "validating"
EXTRACTING_FRAMES == "extracting_frames"
TRAINING == "training"
EXPORTING == "exporting"
COMPRESSING == "compressing"
COMPLETED == "completed"
ERROR == "error"

JobStatus == <<UPLOADED, VALIDATING, EXTRACTING_FRAMES, TRAINING, EXPORTING, COMPRESSING, COMPLETED, ERROR>>

QualityPreset == {"fast", "balanced", "quality"}

QUALITY_PRESETS ==
    [p \in QualityPreset |->
        CASE p = "fast"     -> [fps |-> 10, iterations |-> 2000,  resolution |-> 2, estimated_minutes |-> 5]
          [] p = "balanced" -> [fps |-> 20, iterations |-> 5000,  resolution |-> 1, estimated_minutes |-> 10]
          [] p = "quality"  -> [fps |-> 30, iterations |-> 12000, resolution |-> 1, estimated_minutes |-> 25]]

ALLOWED_EXTENSIONS == {".mp4", ".mov", ".avi", ".webm"}
MIN_VIDEO_DURATION == 30
MAX_VIDEO_DURATION == 3000
MIN_VIDEO_RESOLUTION == 480
MAX_VIDEO_RESOLUTION == 4096
MAX_UPLOAD_SIZE == 500

\* Job(job_id, status, video_filename, created_at=now, updated_at=now) with
\* the defaults of the class for the other fields.
Job(job_id, status, video_filename) ==
    [job_id |-> job_id,
     status |-> status,
     video_filename |-> video_filename,
     created_at |-> now,
     updated_at |-> now,
     error_message |-> None,
     progress |-> 0,
     model_filename |-> None,
     model_url |-> None,
     model_url_compressed |-> None,
     quality_preset |-> "balanced",
     validation |-> None,
     estimated_minutes |-> None]

----------------------------------------------------------------------------
\* jobs/job_manager.py

\* What `last` holds: the call, the job id it was about, the job passed in
\* (as the caller held it when calling), what the call returned, and the
\* exception it raised, if any.
Call(op, id, arg, ret) == [op |-> op, id |-> id, arg |-> arg, ret |-> ret, raised |-> None]

\* datetime.isoformat() of a clock value, and datetime.fromisoformat(), which
\* raises ValueError on any other string (modelled as None).
isoformat(t) == "2026-11-03T00:00:0" \o ToString(t)

Instants == 0..(MaxClock + 1)

fromisoformat(text) ==
    IF \E t \in Instants : isoformat(t) = text
    THEN Some(CHOOSE t \in Instants : isoformat(t) = text)
    ELSE None

\* Range of a sequence.
Values(seq) == {seq[i] : i \in 1..Len(seq)}

\* job.model_dump(mode='json'): enum members become their values (the model
\* already writes them as such), datetimes become ISO strings, None is null.
model_dump(job) ==
    [job EXCEPT !.created_at = isoformat(job.created_at),
                !.updated_at = isoformat(job.updated_at)]

\* Lines 30-33: JobStatus(...), fromisoformat(...) and Job(**job_data) accept
\* the entry (none of them raises).
Loadable(job_data) ==
    /\ job_data.status \in Values(JobStatus)
    /\ fromisoformat(job_data.created_at) /= None
    /\ fromisoformat(job_data.updated_at) /= None
    /\ job_data.quality_preset \in QualityPreset

\* LoadedJob that does not pass the nested validation dict on to Job(...).
LoadedJob_DropsValidation(job_data) ==
    [job_data EXCEPT !.created_at = fromisoformat(job_data.created_at)[1],
                     !.updated_at = fromisoformat(job_data.updated_at)[1],
                     !.validation = None]

\* Lines 30-33 on an entry they accept: the Job built from it.
LoadedJob(job_data) ==
    [job_data EXCEPT !.created_at = fromisoformat(job_data.created_at)[1],
                     !.updated_at = fromisoformat(job_data.updated_at)[1]]

\* _load_jobs: self.jobs after construction from the file f.  json.load raises
\* on a file that is not a complete JSON document and nothing is loaded.  The
\* entries are visited in file order, which is the order the ids were issued
\* in; the first entry that raises ends the loop (the try encloses it), so the
\* entries before it stay loaded and the ones after it are never read.
_load_jobs(f) ==
    IF ~f.intact THEN <<>>
    ELSE LET reached == {id \in DOMAIN f.data :
                            \A k \in DOMAIN f.data : k < id => Loadable(f.data[k])}
         IN  [id \in {k \in reached : Loadable(f.data[k])} |-> LoadedJob(f.data[id])]

\* _save_jobs: dumps every job and rewrites jobs.json in place.  The outcome
\* is the environment's: "ok"; "unwritable" (the dump or the open fails, the
\* file keeps its contents); "partial" (open(..., 'w') truncated the file and
\* the write failed part-way).  Every exception is caught and logged.
SaveOutcomes == IF faults < MaxSaveFaults THEN {"ok", "unwritable", "partial"} ELSE {"ok"}

Written(js, outcome) ==
    CASE outcome = "ok"         -> [intact |-> TRUE, data |-> [id \in DOMAIN js |-> model_dump(js[id])]]
      [] outcome = "unwritable" -> file
      [] outcome = "partial"    -> [intact |-> FALSE, data |-> <<>>]

_save_jobs(js) ==
    \E outcome \in SaveOutcomes :
        /\ file' = Written(js, outcome)
        /\ faults' = IF outcome = "ok" THEN faults ELSE faults + 1

\* uuid.uuid4(): an id no job has or ever had.
NewJobId == issued + 1

\* Stored that rebinds self.jobs to a dict holding the one job.
Stored_Alone(js, job) == [id \in {job.job_id} |-> job]

\* self.jobs[job.job_id] = job
Stored(js, job) == [id \in DOMAIN js \cup {job.job_id} |-> IF id = job.job_id THEN job ELSE js[id]]

\* update_job that leaves the store alone when it has no job of that id.
update_job_KnownOnly(job) ==
    /\ jobs' = IF job.job_id \in DOMAIN jobs THEN Stored(jobs, [job EXCEPT !.updated_at = now]) ELSE jobs
    /\ _save_jobs(jobs')

\* update_job(job): job.updated_at = datetime.now(); self.jobs[job.job_id] =
\* job; _save_jobs().  It never raises: _save_jobs catches every exception.
update_job(job) ==
    /\ jobs' = Stored(jobs, [job EXCEPT !.updated_at = now])
    /\ _save_jobs(jobs')

\* `await job_manager.update_job(job)` in the handler and in process_job; the
\* (status, progress) saved is appended to the job's history.
await_update_job(job) ==
    /\ update_job(job)
    /\ hist' = [hist EXCEPT ![job.job_id] = Append(@, <<job.status, job.progress>>)]

\* get_job(job_id): self.jobs.get(job_id)
get_job(job_id) == IF job_id \in DOMAIN jobs THEN Some(jobs[job_id]) ELSE None

----------------------------------------------------------------------------
\* services/video/validate.py

\* f"{x:.1f}" of a number kept in tenths.
Fmt1(tenths) == ToString(tenths \div 10) \o "." \o ToString(tenths % 10)

Min(a, b) == IF a <= b THEN a ELSE b
Max(a, b) == IF a >= b THEN a ELSE b

RECURSIVE Join(_, _)
\* sep.join(strs)
Join(strs, sep) ==
    IF strs = <<>> THEN ""
    ELSE IF Len(strs) = 1 THEN strs[1]
    ELSE strs[1] \o sep \o Join(Tail(strs), sep)

\* The uploaded videos of the model: what ffprobe would report of each.
\* probe = FALSE is a file get_video_info cannot read (it returns None).
Video(probe, duration, width, height, fps, file_size) ==
    [exists |-> TRUE, ext |-> ".mp4", probe |-> probe, duration |-> duration,
     width |-> width, height |-> height, fps |-> fps, file_size |-> file_size]

Videos ==
    { Video(FALSE, 0, 0, 0, 0, 0),
      Video(TRUE, 10, 1920, 1080, 30, 5),
      Video(TRUE, 100, 640, 360, 30, 5),
      Video(TRUE, 100, 1920, 1080, 30, 50) }

\* get_video_info(video_path)
get_video_info(v) ==
    IF v.probe
    THEN Some([duration |-> v.duration, width |-> v.width, height |-> v.height,
               fps |-> v.fps, file_size |-> v.file_size])
    ELSE None

ValidationResult(valid, video_info, errors, warnings) ==
    [valid |-> valid, video_info |-> video_info, errors |-> errors, warnings |-> warnings]

\* int(video_info.duration * 2)
estimated_frames(info) == (info.duration * 2) \div 10

\* The errors list of validate_video, in the order of its appends.
ValidationErrors(info) ==
    (IF info.duration < MIN_VIDEO_DURATION
        THEN <<"Video too short: " \o Fmt1(info.duration) \o "s. Minimum: 3.0s">> ELSE <<>>)
    \o (IF info.duration > MAX_VIDEO_DURATION
        THEN <<"Video too long: " \o Fmt1(info.duration) \o "s. Maximum: 300.0s (5 minutes)">> ELSE <<>>)
    \o (IF Min(info.width, info.height) < MIN_VIDEO_RESOLUTION
        THEN <<"Resolution too low: " \o ToString(info.width) \o "x" \o ToString(info.height)
               \o ". Minimum: 480p">> ELSE <<>>)
    \o (IF info.file_size > MAX_UPLOAD_SIZE
        THEN <<"File too large: " \o ToString(info.file_size) \o ".0MB. Maximum: 500MB">> ELSE <<>>)
    \o (IF estimated_frames(info) < 10
        THEN <<"Not enough frames for reconstruction. Video would produce only "
               \o ToString(estimated_frames(info)) \o " frames. Minimum: 10">> ELSE <<>>)

\* The warnings list of validate_video, in the order of its appends.
ValidationWarnings(info) ==
    (IF Max(info.width, info.height) > MAX_VIDEO_RESOLUTION
        THEN <<"High resolution video will be downscaled for processing">> ELSE <<>>)
    \o (IF info.width % 2 /= 0 \/ info.height % 2 /= 0
        THEN <<"Video dimensions are odd; may cause encoding issues">> ELSE <<>>)
    \o (IF info.fps < 15 THEN <<"Low frame rate may result in lower quality reconstruction">> ELSE <<>>)
    \o (IF info.fps > 60 THEN <<"High frame rate - frames will be sampled for efficiency">> ELSE <<>>)
    \o (IF estimated_frames(info) > 500 THEN <<"Large video. Consider using a shorter clip">> ELSE <<>>)

\* validate_video with the message of the unreadable-file branch left out.
validate_video_NoErrorText(v) ==
    IF ~v.exists THEN ValidationResult(FALSE, None, <<"Video file not found">>, <<>>)
    ELSE IF v.ext \notin ALLOWED_EXTENSIONS
    THEN ValidationResult(FALSE, None, <<"Unsupported format: " \o v.ext>>, <<>>)
    ELSE IF get_video_info(v) = None
    THEN ValidationResult(FALSE, None, <<>>, <<>>)
    ELSE LET info == get_video_info(v)[1]
             errors == ValidationErrors(info) IN
         ValidationResult(Len(errors) = 0, Some(info), errors, ValidationWarnings(info))

\* validate_video(video_path)
validate_video(v) ==
    IF ~v.exists THEN ValidationResult(FALSE, None, <<"Video file not found">>, <<>>)
    ELSE IF v.ext \notin ALLOWED_EXTENSIONS
    THEN ValidationResult(FALSE, None, <<"Unsupported format: " \o v.ext>>, <<>>)
    ELSE IF get_video_info(v) = None
    THEN ValidationResult(FALSE, None, <<"Could not read video file. File may be corrupted.">>, <<>>)
    ELSE LET info == get_video_info(v)[1]
             errors == ValidationErrors(info) IN
         ValidationResult(Len(errors) = 0, Some(info), errors, ValidationWarnings(info))

\* VideoValidation(valid=..., duration=..., ...) as the upload handler builds it.
VideoValidation(r) ==
    [valid |-> r.valid,
     duration |-> IF r.video_info /= None THEN Some(r.video_info[1].duration) ELSE None,
     width |-> IF r.video_info /= None THEN Some(r.video_info[1].width) ELSE None,
     height |-> IF r.video_info /= None THEN Some(r.video_info[1].height) ELSE None,
     fps |-> IF r.video_info /= None THEN Some(r.video_info[1].fps) ELSE None,
     errors |-> r.errors,
     warnings |-> r.warnings]

----------------------------------------------------------------------------
\* api/jobs.py: upload_video

\* The request's inputs: the quality_preset form field and the uploaded file's name.
PresetInputs == QualityPreset \cup {"ultra"}
FileNames == { [stem |-> "room", ext |-> ".mp4"], [stem |-> "notes", ext |-> ".txt"] }

\* Lines 35-56: the preset is parsed, a file of another type is refused with
\* HTTP 400 before any job exists, create_job stores and saves the new job, and
\* the handler then sets the preset on the live object (no save).
UploadCreate ==
    \E quality_preset \in PresetInputs, filename \in FileNames :
        LET preset == IF quality_preset \in QualityPreset THEN quality_preset ELSE "balanced"
            job_id == NewJobId
            job == Job(job_id, UPLOADED, filename)
        IN  /\ issued < MaxJobs
            /\ filename.ext \in ALLOWED_EXTENSIONS
            /\ issued' = issued + 1
            /\ _save_jobs(Stored(jobs, job))
            /\ hist' = [hist EXCEPT ![job_id] = Append(@, <<job.status, job.progress>>)]
            /\ jobs' = Stored(jobs, [job EXCEPT !.quality_preset = preset,
                                                !.estimated_minutes = Some(QUALITY_PRESETS[preset].estimated_minutes)])
            /\ pc' = [pc EXCEPT ![job_id] = "write_file"]
            /\ UNCHANGED <<now, last, supervisorVars, model_dir, compressOutput, invoked, produced, failedStage, softFailed>>

\* Lines 130-135: except Exception of the handler.
UploadExcept(job, e) ==
    /\ await_update_job([job EXCEPT !.status = ERROR, !.error_message = Some(e)])
    /\ pc' = [pc EXCEPT ![job.job_id] = "handler_raised_500"]

\* Lines 58-69: the upload is written to disk; then status VALIDATING is saved.
UploadWriteFile(j) ==
    /\ pc[j] = "write_file"
    /\ \E outcome \in {"ok", "io_error"} :
        IF outcome = "ok"
        THEN /\ await_update_job([jobs[j] EXCEPT !.status = VALIDATING])
             /\ pc' = [pc EXCEPT ![j] = "validate"]
        ELSE UploadExcept(jobs[j], "[Errno 28] No space left on device")
    /\ UNCHANGED <<issued, now, last, supervisorVars, model_dir, compressOutput, invoked, produced, failedStage, softFailed>>

\* UploadInvalid without line 84: the errors are saved, the status is left.
UploadInvalid_KeepsStatus(job, errors) ==
    /\ await_update_job([job EXCEPT !.error_message = Some(Join(errors, "; "))])
    /\ pc' = [pc EXCEPT ![job.job_id] = "unlink"]

\* Lines 83-86: the video is invalid; Error and the joined errors are saved.
UploadInvalid(job, errors) ==
    /\ await_update_job([job EXCEPT !.status = ERROR, !.error_message = Some(Join(errors, "; "))])
    /\ pc' = [pc EXCEPT ![job.job_id] = "unlink"]

\* Lines 100-106: the video is valid; the job goes back to UPLOADED and
\* process_job is added to the background tasks.
UploadAccepted(job) ==
    /\ await_update_job([job EXCEPT !.video_filename = [stem |-> ToString(job.job_id), ext |-> job.video_filename.ext],
                              !.status = UPLOADED])
    /\ pc' = [pc EXCEPT ![job.job_id] = "scheduled"]

\* Lines 71-126, for an upload that is one of the given videos.
UploadValidateOf(j, videos) ==
    /\ pc[j] = "validate"
    /\ \E v \in videos :
        LET validation_result == validate_video(v)
            job == [jobs[j] EXCEPT !.validation = Some(VideoValidation(validation_result))]
        IN  IF ~validation_result.valid
            THEN UploadInvalid(job, validation_result.errors)
            ELSE UploadAccepted(job)
    /\ UNCHANGED <<issued, now, last, supervisorVars, model_dir, compressOutput, invoked, produced, failedStage, softFailed>>

\* Lines 71-126.
UploadValidate(j) == UploadValidateOf(j, Videos)

\* UploadUnlink without its raise: the handler falls through to lines 100-106.
UploadUnlink_FallsThrough(j) ==
    /\ pc[j] = "unlink"
    /\ UploadAccepted(jobs[j])
    /\ UNCHANGED <<issued, now, last, supervisorVars, model_dir, compressOutput, invoked, produced, failedStage, softFailed>>

\* Lines 88-98: the invalid video is deleted and HTTP 400 is raised.  unlink may
\* itself raise; that lands in the handler's except Exception (lines 130-135).
UploadUnlink(j) ==
    /\ pc[j] = "unlink"
    /\ \E outcome \in {"ok", "os_error"} :
        IF outcome = "ok"
        THEN /\ pc' = [pc EXCEPT ![j] = "handler_raised_400"]
             /\ UNCHANGED <<jobs, file, faults, hist>>
        ELSE UploadExcept(jobs[j], "[Errno 13] Permission denied")
    /\ UNCHANGED <<issued, now, last, supervisorVars, model_dir, compressOutput, invoked, produced, failedStage, softFailed>>

----------------------------------------------------------------------------
\* utils/shell.py, services/longsplat/train.py, services/video/validate.py:
\* the child processes and the coroutines that start them.

\* The coroutines on the event loop: the upload handler, the pipeline of a job
\* it scheduled, and a status query.
Tasks == {"upload_video", "process_job", "get_job_status"}

\* A coroutine that has not run yet.  error_message is what process_job stores
\* on the job when a stage has raised.
Idle == [at |-> "idle", error_message |-> None]

\* dict: {**base, **over}
Merged(base, over) ==
    [k \in DOMAIN base \cup DOMAIN over |-> IF k \in DOMAIN over THEN over[k] ELSE base[k]]

\* os.environ of the server process.
os_environ == [PATH |-> "/usr/local/bin:/usr/bin"]

\* shell.py, lines 15-18.
SUBPROCESS_ENV == Merged(os_environ, [QT_QPA_PLATFORM |-> "offscreen"])

\* shell.py, line 44: env if env is not None else SUBPROCESS_ENV.
command_env(env) == IF env /= None THEN env[1] ELSE SUBPROCESS_ENV

LONGSPLAT_REPO == "/opt/LongSplat"

\* train.py, lines 186-190: a copy of os.environ with LONGSPLAT_REPO put in
\* front of PYTHONPATH.
train_env ==
    IF "PYTHONPATH" \in DOMAIN os_environ
    THEN Merged(os_environ, [PYTHONPATH |-> LONGSPLAT_REPO \o ":" \o os_environ["PYTHONPATH"]])
    ELSE Merged(os_environ, [PYTHONPATH |-> LONGSPLAT_REPO])

\* train.py, line 199.
timeout_seconds == 3600 * 4

\* A child process as asyncio.create_subprocess_exec or subprocess.run starts
\* it, with the call that supervises it: `overrides` is the environment the
\* caller asked for, `cause` what ended the supervision, `report` what the
\* supervisor handed to its caller.
Process(owner, cmd, overrides, env, timeout) ==
    [owner |-> owner, cmd |-> cmd, overrides |-> overrides, env |-> env, timeout |-> timeout,
     state |-> "running", returncode |-> None, cause |-> "none", report |-> "none"]

\* The child process a coroutine is supervising: the last one it started.
Child(t) == CHOOSE p \in 1..Len(procs) : procs[p].owner = t /\ \A q \in (p + 1)..Len(procs) : procs[q].owner /= t

----------------------------------------------------------------------------
\* services/export/to_ply.py
\*
\* A file below model_dir is the sequence of its path components, and a
\* directory tree is the set of the files in it.  The contents of a file are
\* written as the path it was first written under.

\* The characters of the file names of the model, in code-point order.
Alphabet == "-./0123456789_abcdefghijklmnopqrstuvwxyz"

Ord(c) == CHOOSE i \in 1..Len(Alphabet) : SubSeq(Alphabet, i, i) = c

RECURSIVE StrLess(_, _)
\* a < b of two str
StrLess(a, b) ==
    IF a = "" THEN b /= ""
    ELSE IF b = "" THEN FALSE
    ELSE IF Head(a) = Head(b) THEN StrLess(Tail(a), Tail(b))
    ELSE Ord(Head(a)) < Ord(Head(b))

RECURSIVE PathLess(_, _)
\* p < q of two Path objects: their parts are compared as lists.
PathLess(p, q) ==
    IF p = <<>> THEN q /= <<>>
    ELSE IF q = <<>> THEN FALSE
    ELSE IF Head(p) = Head(q) THEN PathLess(Tail(p), Tail(q))
    ELSE StrLess(Head(p), Head(q))

\* sorted(paths)[0]
SortedFirst(paths) == CHOOSE p \in paths : \A q \in paths : q = p \/ PathLess(p, q)

\* sorted(paths)[-1]
SortedLast(paths) == CHOOSE p \in paths : \A q \in paths : q = p \/ PathLess(q, p)

EndsWith(name, suffix) ==
    Len(name) >= Len(suffix) /\ SubSeq(name, Len(name) - Len(suffix) + 1, Len(name)) = suffix

\* model_dir.glob(pattern): the files at the root whose name matches "*<suffix>".
Glob(tree, suffix) == {p \in tree : Len(p) = 1 /\ EndsWith(p[1], suffix)}

\* model_dir.rglob("point_cloud.ply"): the files of that name at any depth.
RGlobName(tree, name) == {p \in tree : p[Len(p)] = name}

\* model_dir.rglob("*.ply"): the files at any depth whose name matches.
RGlob(tree, suffix) == {p \in tree : EndsWith(p[Len(p)], suffix)}

\* Lines 27-35: the candidates of the first search that finds any.
PlyFiles(tree) ==
    IF Glob(tree, ".ply") /= {} THEN Glob(tree, ".ply")
    ELSE IF RGlobName(tree, "point_cloud.ply") /= {} THEN RGlobName(tree, "point_cloud.ply")
    ELSE RGlob(tree, ".ply")

\* export_to_ply that stops after the search for point_cloud.ply.
export_to_ply_TwoSearches(tree, copy) ==
    LET ply_files == IF Glob(tree, ".ply") /= {} THEN Glob(tree, ".ply")
                     ELSE RGlobName(tree, "point_cloud.ply")
    IN  IF ply_files = {} THEN [raised |-> "not_found", source |-> <<>>]
        ELSE IF copy /= "ok" THEN [raised |-> copy, source |-> <<>>]
        ELSE [raised |-> "none", source |-> SortedLast(ply_files)]

\* export_to_ply(model_dir, job_id): what it raises ("none" when it returns
\* output_ply) and the file it copied to output_ply.  shutil.copy2 may raise.
export_to_ply(tree, copy) ==
    LET ply_files == PlyFiles(tree)
    IN  IF ply_files = {} THEN [raised |-> "not_found", source |-> <<>>]
        ELSE IF copy /= "ok" THEN [raised |-> copy, source |-> <<>>]
        ELSE [raised |-> "none", source |-> SortedLast(ply_files)]

\* services/longsplat/train.py, lines 196-254: the files train_longsplat has
\* left under output_dir when it returns True.
TrainedTree ==
    { <<"training.log">>,
      <<"point_cloud", "iteration_5000", "point_cloud.ply">>,
      <<"model.ply">> }

\* files with `content` written under `key`.
WithFile(files, key, content) ==
    [k \in DOMAIN files \cup {key} |-> IF k = key THEN content ELSE files[k]]

----------------------------------------------------------------------------
\* core/pipeline.py: process_job

\* str(e) of the exceptions the stages raise.
ExceptionStr(kind) ==
    CASE kind = "exit_error"  -> "Command returned non-zero exit status 1."
      [] kind = "os_error"    -> "[Errno 2] No such file or directory"
      [] kind = "mkdir_error" -> "[Errno 28] No space left on device"
      [] kind = "train_false" -> "LongSplat training failed. Check logs for details."
      [] kind = "not_found"   -> "No PLY file found in model_dir"
      [] kind = "copy_error"  -> "[Errno 28] No space left on device"

\* ProcessExcept that logs and re-raises instead of storing the error.
ProcessExcept_Reraises(job, stage, kind) ==
    /\ failedStage' = [failedStage EXCEPT ![job.job_id] = stage]
    /\ pc' = [pc EXCEPT ![job.job_id] = "process_raised"]
    /\ UNCHANGED <<jobs, file, faults, hist>>

\* ProcessExcept without the assignment of error_message.
ProcessExcept_NoMessage(job, stage, kind) ==
    /\ await_update_job([job EXCEPT !.status = ERROR])
    /\ failedStage' = [failedStage EXCEPT ![job.job_id] = stage]
    /\ pc' = [pc EXCEPT ![job.job_id] = "process_returned"]

\* Lines 113-118: except Exception of process_job; the job is returned.
ProcessExcept(job, stage, kind) ==
    /\ await_update_job([job EXCEPT !.status = ERROR, !.error_message = Some(ExceptionStr(kind))])
    /\ failedStage' = [failedStage EXCEPT ![job.job_id] = stage]
    /\ pc' = [pc EXCEPT ![job.job_id] = "process_returned"]

\* ProcessStart with another first checkpoint.
ProcessStart_Progress20(j) ==
    /\ pc[j] = "scheduled"
    /\ await_update_job([jobs[j] EXCEPT !.status = EXTRACTING_FRAMES, !.progress = 20])
    /\ pc' = [pc EXCEPT ![j] = "extract_frames"]
    /\ UNCHANGED <<issued, now, last, supervisorVars, model_dir, compressOutput, invoked, produced, failedStage, softFailed>>

\* Lines 26-38.
ProcessStart(j) ==
    /\ pc[j] = "scheduled"
    /\ await_update_job([jobs[j] EXCEPT !.status = EXTRACTING_FRAMES, !.progress = 10])
    /\ pc' = [pc EXCEPT ![j] = "extract_frames"]
    /\ UNCHANGED <<issued, now, last, supervisorVars, model_dir, compressOutput, invoked, produced, failedStage, softFailed>>

\* ProcessExtractFrames that goes on to the training without lines 47-49.
ProcessExtractFrames_Unannounced(j) ==
    /\ pc[j] = "extract_frames"
    /\ invoked' = [invoked EXCEPT ![j] = Append(@, "extract_frames")]
    /\ \E outcome \in {"ok", "exit_error", "os_error"} :
        IF outcome = "ok"
        THEN /\ pc' = [pc EXCEPT ![j] = "train"]
             /\ UNCHANGED <<jobs, file, faults, hist, failedStage>>
        ELSE ProcessExcept(jobs[j], "extract_frames", outcome)
    /\ UNCHANGED <<issued, now, last, supervisorVars, model_dir, compressOutput, produced, softFailed>>

\* Lines 40-49: extract_frames (ffmpeg through run_command) raises or returns.
ProcessExtractFrames(j) ==
    /\ pc[j] = "extract_frames"
    /\ invoked' = [invoked EXCEPT ![j] = Append(@, "extract_frames")]
    /\ \E outcome \in {"ok", "exit_error", "os_error"} :
        IF outcome = "ok"
        THEN /\ await_update_job([jobs[j] EXCEPT !.status = TRAINING, !.progress = 30])
             /\ pc' = [pc EXCEPT ![j] = "train"]
             /\ UNCHANGED failedStage
        ELSE ProcessExcept(jobs[j], "extract_frames", outcome)
    /\ UNCHANGED <<issued, now, last, supervisorVars, model_dir, compressOutput, produced, softFailed>>

\* ProcessTrain that does not test training_success: after train_longsplat
\* returned False the pipeline goes on to the export.
ProcessTrain_IgnoresResult(j) ==
    /\ pc[j] = "train"
    /\ \E outcome \in {"ok", "mkdir_error", "train_false"} :
        /\ invoked' = IF outcome = "mkdir_error" THEN invoked
                      ELSE [invoked EXCEPT ![j] = Append(@, "train_longsplat")]
        /\ IF outcome = "mkdir_error"
           THEN ProcessExcept(jobs[j], "train_longsplat", outcome)
           ELSE /\ await_update_job([jobs[j] EXCEPT !.status = EXPORTING, !.progress = 85])
                /\ pc' = [pc EXCEPT ![j] = "export_ply"]
                /\ failedStage' = IF outcome = "ok" THEN failedStage
                                  ELSE [failedStage EXCEPT ![j] = "train_longsplat"]
        /\ model_dir' = IF outcome = "ok" THEN [model_dir EXCEPT ![j] = TrainedTree] ELSE model_dir
    /\ UNCHANGED <<issued, now, last, supervisorVars, compressOutput, produced, softFailed>>

\* Lines 51-68: mkdir of the output directory, then train_longsplat, which
\* catches its own exceptions and returns False.  When it returns True it has
\* left its files under model_dir.
ProcessTrain(j) ==
    /\ pc[j] = "train"
    /\ \E outcome \in {"ok", "mkdir_error", "train_false"} :
        /\ invoked' = IF outcome = "mkdir_error" THEN invoked
                      ELSE [invoked EXCEPT ![j] = Append(@, "train_longsplat")]
        /\ IF outcome = "ok"
           THEN /\ await_update_job([jobs[j] EXCEPT !.status = EXPORTING, !.progress = 85])
                /\ pc' = [pc EXCEPT ![j] = "export_ply"]
                /\ UNCHANGED failedStage
           ELSE ProcessExcept(jobs[j], "train_longsplat", outcome)
        /\ model_dir' = IF outcome = "ok" THEN [model_dir EXCEPT ![j] = TrainedTree] ELSE model_dir
    /\ UNCHANGED <<issued, now, last, supervisorVars, compressOutput, produced, softFailed>>

\* ProcessExportPly with a checkpoint below the one of the stage before it.
ProcessExportPly_Progress80(j) ==
    /\ pc[j] = "export_ply"
    /\ invoked' = [invoked EXCEPT ![j] = Append(@, "export_to_ply")]
    /\ \E removed \in BOOLEAN, copy \in {"ok", "copy_error"} :
        LET tree == IF removed THEN {} ELSE model_dir[j]
            result == export_to_ply(tree, copy)
        IN  /\ model_dir' = [model_dir EXCEPT ![j] = tree]
            /\ IF result.raised = "none"
               THEN /\ await_update_job([jobs[j] EXCEPT !.status = COMPRESSING, !.progress = 80])
                    /\ produced' = WithFile(produced, <<j, "ply">>, result.source)
                    /\ pc' = [pc EXCEPT ![j] = "compress"]
                    /\ UNCHANGED failedStage
               ELSE /\ ProcessExcept(jobs[j], "export_to_ply", result.raised)
                    /\ UNCHANGED produced
    /\ UNCHANGED <<issued, now, last, supervisorVars, compressOutput, softFailed>>

\* Lines 70-80: export_to_ply resolves the PLY under model_dir and copies it
\* to MODELS_DIR/<job_id>.ply, or raises.  `removed` is the output directory
\* having been emptied by the time the export looks into it.
ProcessExportPly(j) ==
    /\ pc[j] = "export_ply"
    /\ invoked' = [invoked EXCEPT ![j] = Append(@, "export_to_ply")]
    /\ \E removed \in BOOLEAN, copy \in {"ok", "copy_error"} :
        LET tree == IF removed THEN {} ELSE model_dir[j]
            result == export_to_ply(tree, copy)
        IN  /\ model_dir' = [model_dir EXCEPT ![j] = tree]
            /\ IF result.raised = "none"
               THEN /\ await_update_job([jobs[j] EXCEPT !.status = COMPRESSING, !.progress = 92])
                    /\ produced' = WithFile(produced, <<j, "ply">>, result.source)
                    /\ pc' = [pc EXCEPT ![j] = "compress"]
                    /\ UNCHANGED failedStage
               ELSE /\ ProcessExcept(jobs[j], "export_to_ply", result.raised)
                    /\ UNCHANGED produced
    /\ UNCHANGED <<issued, now, last, supervisorVars, compressOutput, softFailed>>

\* compress_ply_gzip(input_path) under run_in_executor.  When the compression
\* fails, the function's except clause logs it and returns input_path: nothing
\* is raised.  "executor_error" is run_in_executor itself failing, before the
\* function runs.
compress_ply_gzip(outcome) ==
    CASE outcome = "ok"             -> [raised |-> FALSE, path |-> "ply.gz"]
      [] outcome = "failed"         -> [raised |-> FALSE, path |-> "ply"]
      [] outcome = "executor_error" -> [raised |-> TRUE,  path |-> ""]

\* Compressed that writes the gzip stream over input_path, as gzip(1) replaces
\* its input: <job_id>.ply is gone once <job_id>.ply.gz is there.
Compressed_InPlace(files, j, outcome) ==
    IF outcome = "ok"
    THEN [k \in (DOMAIN files \ {<<j, "ply">>}) \cup {<<j, "gz">>} |->
            IF k = <<j, "gz">> THEN <<"gzip">> \o files[<<j, "ply">>] ELSE files[k]]
    ELSE files

\* The files after compress_ply_gzip(<job_id>.ply): lines 30-36 read input_path
\* and write output_path = input_path + ".gz"; input_path is only read.
Compressed(files, j, outcome) ==
    IF outcome = "ok"
    THEN WithFile(files, <<j, "gz">>, <<"gzip">> \o files[<<j, "ply">>])
    ELSE files

\* ProcessCompress that names the OBJ step EXPORTING at line 94.
ProcessCompress_SetsExporting(j) ==
    /\ pc[j] = "compress"
    /\ IF compressOutput
       THEN \E outcome \in {"ok", "failed", "executor_error"} :
            LET result == compress_ply_gzip(outcome) IN
            /\ invoked' = IF outcome = "executor_error" THEN invoked
                          ELSE [invoked EXCEPT ![j] = Append(@, "compress_ply_gzip")]
            /\ produced' = Compressed(produced, j, outcome)
            /\ softFailed' = IF outcome = "ok" THEN softFailed
                             ELSE [softFailed EXCEPT ![j] = @ \cup {"compress_ply_gzip"}]
            /\ await_update_job([jobs[j] EXCEPT
                    !.model_url_compressed =
                        IF result.raised THEN @
                        ELSE Some("/static/models/" \o ToString(j) \o ".ply.gz"),
                    !.status = EXPORTING,
                    !.progress = 95])
       ELSE /\ await_update_job([jobs[j] EXCEPT !.status = EXPORTING, !.progress = 95])
            /\ UNCHANGED <<invoked, produced, softFailed>>
    /\ pc' = [pc EXCEPT ![j] = "export_obj"]
    /\ UNCHANGED <<issued, now, last, supervisorVars, model_dir, compressOutput, failedStage>>

\* Lines 82-95.
ProcessCompress(j) ==
    /\ pc[j] = "compress"
    /\ IF compressOutput
       THEN \E outcome \in {"ok", "failed", "executor_error"} :
            LET result == compress_ply_gzip(outcome) IN
            /\ invoked' = IF outcome = "executor_error" THEN invoked
                          ELSE [invoked EXCEPT ![j] = Append(@, "compress_ply_gzip")]
            /\ produced' = Compressed(produced, j, outcome)
            /\ softFailed' = IF outcome = "ok" THEN softFailed
                             ELSE [softFailed EXCEPT ![j] = @ \cup {"compress_ply_gzip"}]
            /\ await_update_job([jobs[j] EXCEPT
                    !.model_url_compressed =
                        IF result.raised THEN @
                        ELSE Some("/static/models/" \o ToString(j) \o ".ply.gz"),
                    !.progress = 95])
       ELSE /\ await_update_job([jobs[j] EXCEPT !.progress = 95])
            /\ UNCHANGED <<invoked, produced, softFailed>>
    /\ pc' = [pc EXCEPT ![j] = "export_obj"]
    /\ UNCHANGED <<issued, now, last, supervisorVars, model_dir, compressOutput, failedStage>>

\* ProcessExportObj without the try/except around export_to_obj: its failure
\* reaches the except clause of process_job.
ProcessExportObj_Hard(j) ==
    /\ pc[j] = "export_obj"
    /\ invoked' = [invoked EXCEPT ![j] = Append(@, "export_to_obj")]
    /\ \E outcome \in {"ok", "failed"} :
        /\ produced' = IF outcome = "ok" THEN WithFile(produced, <<j, "obj">>, <<"obj">>) ELSE produced
        /\ softFailed' = IF outcome = "ok" THEN softFailed
                         ELSE [softFailed EXCEPT ![j] = @ \cup {"export_to_obj"}]
        /\ IF outcome = "ok"
           THEN /\ await_update_job([jobs[j] EXCEPT !.status = COMPLETED, !.progress = 100,
                                        !.model_filename = Some(ToString(j) \o ".ply"),
                                        !.model_url = Some("/static/models/" \o ToString(j) \o ".ply")])
                /\ pc' = [pc EXCEPT ![j] = "process_returned"]
                /\ UNCHANGED failedStage
           ELSE ProcessExcept(jobs[j], "export_to_obj", "copy_error")
    /\ UNCHANGED <<issued, now, last, supervisorVars, model_dir, compressOutput>>

\* ProcessExportObj after which process_job is added to the background tasks again.
ProcessExportObj_Reschedules(j) ==
    /\ pc[j] = "export_obj"
    /\ invoked' = [invoked EXCEPT ![j] = Append(@, "export_to_obj")]
    /\ \E outcome \in {"ok", "failed"} :
        /\ produced' = IF outcome = "ok" THEN WithFile(produced, <<j, "obj">>, <<"obj">>) ELSE produced
        /\ softFailed' = IF outcome = "ok" THEN softFailed
                         ELSE [softFailed EXCEPT ![j] = @ \cup {"export_to_obj"}]
    /\ await_update_job([jobs[j] EXCEPT !.status = COMPLETED, !.progress = 100,
                                 !.model_filename = Some(ToString(j) \o ".ply"),
                                 !.model_url = Some("/static/models/" \o ToString(j) \o ".ply")])
    /\ pc' = [pc EXCEPT ![j] = "scheduled"]
    /\ UNCHANGED <<issued, now, last, supervisorVars, model_dir, compressOutput, failedStage>>

\* ProcessExportObj that finalizes the job without lines 106-107.
ProcessExportObj_NoReference(j) ==
    /\ pc[j] = "export_obj"
    /\ invoked' = [invoked EXCEPT ![j] = Append(@, "export_to_obj")]
    /\ \E outcome \in {"ok", "failed"} :
        /\ produced' = IF outcome = "ok" THEN WithFile(produced, <<j, "obj">>, <<"obj">>) ELSE produced
        /\ softFailed' = IF outcome = "ok" THEN softFailed
                         ELSE [softFailed EXCEPT ![j] = @ \cup {"export_to_obj"}]
    /\ await_update_job([jobs[j] EXCEPT !.status = COMPLETED, !.progress = 100])
    /\ pc' = [pc EXCEPT ![j] = "process_returned"]
    /\ UNCHANGED <<issued, now, last, supervisorVars, model_dir, compressOutput, failedStage>>

\* Lines 97-111: export_to_obj may raise (logged only); the job is finalized.
ProcessExportObj(j) ==
    /\ pc[j] = "export_obj"
    /\ invoked' = [invoked EXCEPT ![j] = Append(@, "export_to_obj")]
    /\ \E outcome \in {"ok", "failed"} :
        /\ produced' = IF outcome = "ok" THEN WithFile(produced, <<j, "obj">>, <<"obj">>) ELSE produced
        /\ softFailed' = IF outcome = "ok" THEN softFailed
                         ELSE [softFailed EXCEPT ![j] = @ \cup {"export_to_obj"}]
    /\ await_update_job([jobs[j] EXCEPT !.status = COMPLETED, !.progress = 100,
                                 !.model_filename = Some(ToString(j) \o ".ply"),
                                 !.model_url = Some("/static/models/" \o ToString(j) \o ".ply")])
    /\ pc' = [pc EXCEPT ![j] = "process_returned"]
    /\ UNCHANGED <<issued, now, last, supervisorVars, model_dir, compressOutput, failedStage>>

----------------------------------------------------------------------------

Init ==
    /\ compressOutput \in BOOLEAN
    /\ jobs = <<>>
    /\ file = [intact |-> TRUE, data |-> <<>>]
    /\ faults = 0
    /\ pc = [j \in JobIds |-> "none"]
    /\ hist = [j \in JobIds |-> <<>>]
    /\ invoked = [j \in JobIds |-> <<>>]
    /\ produced = <<>>
    /\ failedStage = [j \in JobIds |-> "none"]
    /\ softFailed = [j \in JobIds |-> {}]
    /\ issued = 0
    /\ now = 0
    /\ last = Call("none", 0, None, None)
    /\ model_dir = [j \in JobIds |-> {}]
    /\ thread = None
    /\ procs = <<>>
    /\ tasks = [t \in Tasks |-> Idle]

Next ==
    \/ UploadCreate
    \/ \E j \in JobIds : UploadWriteFile(j)
    \/ \E j \in JobIds : UploadValidate(j)
    \/ \E j \in JobIds : UploadUnlink(j)
    \/ \E j \in JobIds : ProcessStart(j)
    \/ \E j \in JobIds : ProcessExtractFrames(j)
    \/ \E j \in JobIds : ProcessTrain(j)
    \/ \E j \in JobIds : ProcessExportPly(j)
    \/ \E j \in JobIds : ProcessCompress(j)
    \/ \E j \in JobIds : ProcessExportObj(j)

Spec == Init /\ [][Next]_vars

----------------------------------------------------------------------------
\* services/export: export_to_ply and compress_ply_gzip applied to the output
\* trees a training run can leave behind.

\* The files an output directory is made of.
TreePaths ==
    { <<"model.ply">>,
      <<"input.ply">>,
      <<"training.log">>,
      <<"point_cloud", "iteration_001000", "point_cloud.ply">>,
      <<"point_cloud", "iteration_005000", "point_cloud.ply">>,
      <<"point_cloud", "iteration_001000", "scene.ply">>,
      <<"point_cloud", "iteration_005000", "scene.ply">> }

Trees == SUBSET TreePaths

\* Job 1 as process_job holds it when train_longsplat has returned: uploaded
\* as a valid video with the preset "fast", at its EXPORTING checkpoint.
ExportingJob ==
    LET v == CHOOSE w \in Videos : validate_video(w).valid /\ validate_video(w).warnings = <<>>
    IN  [Job(1, EXPORTING, [stem |-> "1", ext |-> ".mp4"]) EXCEPT
            !.progress = 85,
            !.quality_preset = "fast",
            !.estimated_minutes = Some(QUALITY_PRESETS["fast"].estimated_minutes),
            !.validation = Some(VideoValidation(validate_video(v)))]

\* The state of the pipeline of job 1 before line 70, over any output tree.
ResolverInit ==
    /\ compressOutput \in BOOLEAN
    /\ now = 0
    /\ issued = 1
    /\ faults = 0
    /\ jobs = Stored(<<>>, ExportingJob)
    /\ file = [intact |-> TRUE, data |-> [id \in DOMAIN jobs |-> model_dump(jobs[id])]]
    /\ pc = [j \in JobIds |-> IF j = 1 THEN "export_ply" ELSE "none"]
    /\ hist = [j \in JobIds |->
                 IF j = 1
                 THEN << <<UPLOADED, 0>>, <<VALIDATING, 0>>, <<UPLOADED, 0>>,
                         <<EXTRACTING_FRAMES, 10>>, <<TRAINING, 30>>, <<EXPORTING, 85>> >>
                 ELSE <<>>]
    /\ invoked = [j \in JobIds |-> IF j = 1 THEN <<"extract_frames", "train_longsplat">> ELSE <<>>]
    /\ produced = <<>>
    /\ failedStage = [j \in JobIds |-> "none"]
    /\ softFailed = [j \in JobIds |-> {}]
    /\ last = Call("none", 0, None, None)
    /\ \E tree \in Trees : model_dir = [j \in JobIds |-> IF j = 1 THEN tree ELSE {}]
    /\ thread = None
    /\ procs = <<>>
    /\ tasks = [t \in Tasks |-> Idle]

ResolverNext ==
    \/ \E j \in JobIds : ProcessExportPly(j)
    \/ \E j \in JobIds : ProcessCompress(j)
    \/ \E j \in JobIds : ProcessExportObj(j)

ResolverSpec == ResolverInit /\ [][ResolverNext]_vars

----------------------------------------------------------------------------
\* The coroutines of the server on its event loop, and their child processes.
\* A coroutine runs from one await to the next without interruption; `thread`
\* is held across steps only by a call that blocks.

pipelineVars == <<compressOutput, jobs, file, faults, pc, hist, invoked, produced, failedStage,
                  softFailed, issued, now, last, model_dir>>

\* The timeout and env arguments of run_command.  The callers in the
\* repository pass neither.
TimeoutArgs == {None, Some(1)}
EnvArgs == {None, Some([PYTHONPATH |-> LONGSPLAT_REPO]), Some([QT_QPA_PLATFORM |-> "xcb"])}

At(t, position) == [tasks EXCEPT ![t].at = position]

Ended(p, cause, report) == [procs EXCEPT ![p].cause = cause, ![p].report = report]

\* shell.py, lines 44-58: run_command starts the child and awaits
\* communicate() under wait_for; extract_frames.py, line 42, is the caller.
RunCommandSpawn(t) ==
    /\ t = "process_job" /\ tasks[t].at = "idle" /\ thread = None
    /\ \E timeout \in TimeoutArgs, env \in EnvArgs :
        procs' = Append(procs, Process(t, "ffmpeg", env, command_env(env), timeout))
    /\ tasks' = At(t, "communicate")
    /\ UNCHANGED <<thread, pipelineVars>>

\* A running child process ends by itself.
ChildExit(p) ==
    /\ procs[p].state = "running"
    /\ \E returncode \in {0, 1} :
        procs' = [procs EXCEPT ![p].state = "exited", ![p].returncode = Some(returncode)]
    /\ UNCHANGED <<thread, tasks, pipelineVars>>

\* shell.py, lines 60-76: communicate() has returned.  CalledProcessError
\* passes through extract_frames to the except clause of process_job, which
\* stores str(e).
RunCommandReturn(t) ==
    /\ tasks[t].at = "communicate" /\ thread = None
    /\ procs[Child(t)].state = "exited"
    /\ IF procs[Child(t)].returncode = Some(0)
       THEN /\ procs' = Ended(Child(t), "exit_zero", "returned")
            /\ tasks' = At(t, "train")
       ELSE /\ procs' = Ended(Child(t), "exit_nonzero", "CalledProcessError")
            /\ tasks' = [tasks EXCEPT ![t].at = "done",
                                      ![t].error_message = Some(ExceptionStr("exit_error"))]
    /\ UNCHANGED <<thread, pipelineVars>>

\* shell.py, lines 78-80: wait_for has cancelled communicate() and raised
\* TimeoutError, which is logged and raised again; the child is not touched.
\* str(TimeoutError()) is the empty string.
RunCommandTimeout(t) ==
    /\ tasks[t].at = "communicate" /\ thread = None
    /\ procs[Child(t)].state = "running" /\ procs[Child(t)].timeout /= None
    /\ procs' = Ended(Child(t), "timeout", "TimeoutError")
    /\ tasks' = [tasks EXCEPT ![t].at = "done", ![t].error_message = Some("")]
    /\ UNCHANGED <<thread, pipelineVars>>

\* train.py, lines 186-212: the training is started with its own environment
\* and awaited under wait_for.
TrainSpawn(t) ==
    /\ tasks[t].at = "train" /\ thread = None
    /\ procs' = Append(procs, Process(t, "train.py", Some([PYTHONPATH |-> LONGSPLAT_REPO]),
                                       train_env, Some(timeout_seconds)))
    /\ tasks' = At(t, "wait")
    /\ UNCHANGED <<thread, pipelineVars>>

\* train.py, lines 213-216 and 268-277, pipeline.py, lines 63-64 and 113-118:
\* on the timeout the child is killed, train_longsplat returns False and
\* process_job raises and stores its own message.
TrainTimeout(t) ==
    /\ tasks[t].at = "wait" /\ thread = None
    /\ procs[Child(t)].state = "running"
    /\ procs' = [Ended(Child(t), "timeout", "False") EXCEPT ![Child(t)].state = "killed"]
    /\ tasks' = [tasks EXCEPT ![t].at = "done",
                              ![t].error_message = Some(ExceptionStr("train_false"))]
    /\ UNCHANGED <<thread, pipelineVars>>

\* train.py, lines 218-266 and 278-287, pipeline.py, lines 63-68: the child
\* has ended.  A non-zero return code is logged with the tail of training.log
\* and raised as CalledProcessError, which the function catches to return
\* False; so it does when no point cloud is found.
TrainReturn(t) ==
    /\ tasks[t].at = "wait" /\ thread = None
    /\ procs[Child(t)].state = "exited"
    /\ \E point_cloud_exists \in BOOLEAN :
        IF procs[Child(t)].returncode /= Some(0)
        THEN /\ procs' = Ended(Child(t), "exit_nonzero", "False")
             /\ tasks' = [tasks EXCEPT ![t].at = "done",
                                       ![t].error_message = Some(ExceptionStr("train_false"))]
        ELSE IF ~point_cloud_exists
        THEN /\ procs' = Ended(Child(t), "exit_zero", "False")
             /\ tasks' = [tasks EXCEPT ![t].at = "done",
                                       ![t].error_message = Some(ExceptionStr("train_false"))]
        ELSE /\ procs' = Ended(Child(t), "exit_zero", "True")
             /\ tasks' = At(t, "done")
    /\ UNCHANGED <<thread, pipelineVars>>

\* api/jobs.py, line 71, validate.py, line 50: the upload handler calls
\* validate_video, whose subprocess.run starts ffprobe and does not return to
\* the event loop until the child has ended.
ProbeStart(t) ==
    /\ t = "upload_video" /\ tasks[t].at = "idle" /\ thread = None
    /\ thread' = Some(t)
    /\ procs' = Append(procs, Process(t, "ffprobe", None, os_environ, Some(30)))
    /\ tasks' = At(t, "probe")
    /\ UNCHANGED pipelineVars

\* api/jobs.py, lines 83-85: what the handler stores as error_message after
\* validate_video, if it rejects the video.
Rejection(validation_result) ==
    IF validation_result.valid THEN None ELSE Some(Join(validation_result.errors, "; "))

\* validate.py, lines 50-87 and 133-216: subprocess.run has returned; the
\* video is one ffprobe has read if the return code is 0.  validate_video
\* then checks what get_video_info returned.
ProbeReturn(t) ==
    /\ tasks[t].at = "probe" /\ thread = Some(t)
    /\ procs[Child(t)].state = "exited"
    /\ procs' = IF procs[Child(t)].returncode = Some(0)
                THEN Ended(Child(t), "exit_zero", "VideoInfo")
                ELSE Ended(Child(t), "exit_nonzero", "None")
    /\ thread' = None
    /\ \E v \in Videos :
        /\ v.probe <=> procs[Child(t)].returncode = Some(0)
        /\ tasks' = [tasks EXCEPT ![t].at = "done", ![t].error_message = Rejection(validate_video(v))]
    /\ UNCHANGED pipelineVars

\* validate.py, lines 50 and 89-91: subprocess.run kills the child after 30
\* seconds and raises TimeoutExpired; get_video_info returns None, which
\* validate_video rejects.
ProbeTimeout(t) ==
    /\ tasks[t].at = "probe" /\ thread = Some(t)
    /\ procs[Child(t)].state = "running"
    /\ procs' = [Ended(Child(t), "timeout", "None") EXCEPT ![Child(t)].state = "killed"]
    /\ thread' = None
    /\ \E v \in Videos :
        /\ ~v.probe
        /\ tasks' = [tasks EXCEPT ![t].at = "done", ![t].error_message = Rejection(validate_video(v))]
    /\ UNCHANGED pipelineVars

\* api/jobs.py, lines 138-171: a status query is answered in one step.
StatusQuery(t) ==
    /\ t = "get_job_status" /\ tasks[t].at = "idle" /\ thread = None
    /\ tasks' = At(t, "done")
    /\ UNCHANGED <<thread, procs, pipelineVars>>

SupervisorNext ==
    \/ \E t \in Tasks : RunCommandSpawn(t)
    \/ \E p \in 1..Len(procs) : ChildExit(p)
    \/ \E t \in Tasks : RunCommandReturn(t)
    \/ \E t \in Tasks : RunCommandTimeout(t)
    \/ \E t \in Tasks : TrainSpawn(t)
    \/ \E t \in Tasks : TrainTimeout(t)
    \/ \E t \in Tasks : TrainReturn(t)
    \/ \E t \in Tasks : ProbeStart(t)
    \/ \E t \in Tasks : ProbeReturn(t)
    \/ \E t \in Tasks : ProbeTimeout(t)
    \/ \E t \in Tasks : StatusQuery(t)

SupervisorSpec == Init /\ [][SupervisorNext]_vars

----------------------------------------------------------------------------
\* jobs/job_manager.py driven through its interface: the calls any caller can
\* make on the store, a process restart, and a damaged entry in jobs.json.

StoreIds == 1..MaxStoreJobs

lifecycleVars == <<compressOutput, pc, hist, invoked, produced, failedStage, softFailed, model_dir, supervisorVars>>

\* The values a caller gives the fields of a job before it calls update_job.
\* As in the handler and in process_job, a job that has ended is not updated
\* again and VALIDATING follows UPLOADED.
CallerEdits(job) ==
    IF job.status \in {COMPLETED, ERROR} THEN {}
    ELSE IF job.status = UPLOADED THEN {"validating", "error", "completed"}
    ELSE {"error", "completed"}

Edited(job, edit) ==
    CASE edit = "validating" ->
            [job EXCEPT !.status = VALIDATING]
      [] edit = "error" ->
            [job EXCEPT !.status = ERROR,
                        !.error_message = Some("Could not read video file. File may be corrupted."),
                        !.validation = Some(VideoValidation(validate_video(Video(FALSE, 0, 0, 0, 0, 0))))]
      [] edit = "completed" ->
            [job EXCEPT !.status = COMPLETED,
                        !.progress = 100,
                        !.error_message = None,
                        !.quality_preset = "quality",
                        !.estimated_minutes = Some(QUALITY_PRESETS["quality"].estimated_minutes),
                        !.validation = Some(VideoValidation(validate_video(Video(TRUE, 100, 1920, 1080, 30, 50)))),
                        !.model_filename = Some(ToString(job.job_id) \o ".ply"),
                        !.model_url = Some("/static/models/" \o ToString(job.job_id) \o ".ply"),
                        !.model_url_compressed = Some("/static/models/" \o ToString(job.job_id) \o ".ply.gz")]

\* create_job(video_filename): lines 48-64.
create_job(video_filename) ==
    LET job == Job(NewJobId, UPLOADED, video_filename)
    IN  /\ issued' = issued + 1
        /\ jobs' = Stored(jobs, job)
        /\ _save_jobs(jobs')
        /\ last' = Call("create_job", job.job_id, None, Some(job))

StoreCreate ==
    /\ issued < MaxStoreJobs
    /\ create_job([stem |-> "room", ext |-> ".mp4"])
    /\ UNCHANGED <<now, lifecycleVars>>

\* update_job on a job of the store, after the caller changed some fields.
StoreUpdate(id) ==
    /\ id \in DOMAIN jobs
    /\ \E edit \in CallerEdits(jobs[id]) :
        LET job == Edited(jobs[id], edit)
        IN  /\ update_job(job)
            /\ last' = Call("update_job", id, Some(job), None)
    /\ UNCHANGED <<issued, now, lifecycleVars>>

\* update_job on a Job the caller built itself, under an id the store lacks.
StoreUpdateUnknown ==
    /\ issued < MaxStoreJobs
    /\ LET job == Job(NewJobId, VALIDATING, [stem |-> "room", ext |-> ".mp4"])
       IN  /\ issued' = issued + 1
           /\ update_job(job)
           /\ last' = Call("update_job", job.job_id, Some(job), None)
    /\ UNCHANGED <<now, lifecycleVars>>

\* The process stops between two calls and a new JobManager is constructed.
Restart ==
    /\ jobs' = _load_jobs(file)
    /\ last' = Call("load", 0, None, None)
    /\ UNCHANGED <<file, faults, issued, now, lifecycleVars>>

\* The process is killed inside the _save_jobs of an update_job: before line
\* 43 opens the file, after the open truncated it, or after the dump; a new
\* JobManager is then constructed.
CrashInSave(id) ==
    /\ id \in DOMAIN jobs
    /\ \E edit \in CallerEdits(jobs[id]), point \in {"before_open", "after_open", "after_dump"} :
        LET js == Stored(jobs, [Edited(jobs[id], edit) EXCEPT !.updated_at = now])
        IN  /\ file' = CASE point = "before_open" -> file
                         [] point = "after_open"  -> Written(js, "partial")
                         [] point = "after_dump"  -> Written(js, "ok")
            /\ jobs' = _load_jobs(file')
            /\ last' = Call("crash", id, None, None)
    /\ UNCHANGED <<faults, issued, now, lifecycleVars>>

\* An entry of jobs.json whose status this version's JobStatus does not have
\* (a file written by another version, or edited by hand).
DamageEntry(id) ==
    /\ file.intact
    /\ id \in DOMAIN file.data
    /\ Loadable(file.data[id])
    /\ file' = [file EXCEPT !.data[id].status = "queued"]
    /\ last' = Call("damage", id, None, None)
    /\ UNCHANGED <<jobs, faults, issued, now, lifecycleVars>>

Tick ==
    /\ now < MaxClock
    /\ now' = now + 1
    /\ last' = Call("tick", 0, None, None)
    /\ UNCHANGED <<jobs, file, faults, issued, lifecycleVars>>

\* The store under its callers and across clean restarts.  get_job changes
\* nothing and is the operator of that name.
StoreNext ==
    \/ StoreCreate
    \/ \E id \in StoreIds : StoreUpdate(id)
    \/ StoreUpdateUnknown
    \/ Restart
    \/ Tick

StoreSpec == Init /\ [][StoreNext]_vars

\* The store across restarts, crashes inside a save and damaged entries.
RestartNext ==
    \/ StoreCreate
    \/ \E id \in StoreIds : StoreUpdate(id)
    \/ Restart
    \/ \E id \in StoreIds : CrashInSave(id)
    \/ \E id \in StoreIds : DamageEntry(id)
    \/ Tick

RestartSpec == Init /\ [][RestartNext]_vars

----------------------------------------------------------------------------
\* The server process killed while uploads and pipelines are under way, and
\* started again: main.py builds the app, and the first get_job_manager()
\* constructs a JobManager, which loads jobs.json.  Nothing at startup looks
\* at the jobs loaded.

\* CrashRestart whose startup lets the coroutines of the old process go on.
CrashRestart_Resumes ==
    /\ jobs' = _load_jobs(file)
    /\ last' = Call("load", 0, None, None)
    /\ UNCHANGED <<file, faults, issued, now, lifecycleVars>>

\* job_manager.py, lines 18-35 and 79-85: the coroutines of the old process
\* are gone, and the store is what _load_jobs reads.
CrashRestart ==
    /\ jobs' = _load_jobs(file)
    /\ pc' = [j \in JobIds |-> IF pc[j] = "none" THEN "none" ELSE "not_running"]
    /\ last' = Call("load", 0, None, None)
    /\ UNCHANGED <<file, faults, issued, now, compressOutput, hist, invoked, produced, failedStage,
                   softFailed, model_dir, supervisorVars>>

CrashNext ==
    \/ Next
    \/ CrashRestart

CrashSpec == Init /\ [][CrashNext]_vars

----------------------------------------------------------------------------
\* The pre-flight frame estimate of validate_video against the frames that
\* extract_frames writes at the preset's rate: uploads of readable videos of
\* sufficient resolution and size whose durations lie around the limits.

Durations == {20, 40, 49, 50, 60, 99, 100, 120}

DurationVideos == { Video(TRUE, duration, 1920, 1080, 30, 5) : duration \in Durations }

\* services/video/extract_frames.py, lines 33-39: ffmpeg -i video -vf fps=N
\* writes one frame per 1/N seconds of the video; whether the last, partial
\* interval yields a frame depends on the rounding of the timestamps, so the
\* count is duration * N rounded down or one more.
FrameCounts(duration, fps) ==
    LET n == (duration * fps) \div 100 IN {n, n + 1}

\* core/pipeline.py, lines 28-49: extract_frames is called with the fps of the
\* job's preset; the frames frame_000001.jpg ... are written to the job's
\* frames directory, or the stage raises.
ProcessExtractFramesAtPreset(j) ==
    /\ pc[j] = "extract_frames"
    /\ invoked' = [invoked EXCEPT ![j] = Append(@, "extract_frames")]
    /\ \E outcome \in {"ok", "exit_error", "os_error"} :
        IF outcome = "ok"
        THEN /\ \E n \in FrameCounts(jobs[j].validation[1].duration[1], QUALITY_PRESETS[jobs[j].quality_preset].fps) :
                    produced' = WithFile(produced, <<j, "frames">>, [i \in 1..n |-> i])
             /\ await_update_job([jobs[j] EXCEPT !.status = TRAINING, !.progress = 30])
             /\ pc' = [pc EXCEPT ![j] = "train"]
             /\ UNCHANGED failedStage
        ELSE /\ ProcessExcept(jobs[j], "extract_frames", outcome)
             /\ UNCHANGED produced
    /\ UNCHANGED <<issued, now, last, supervisorVars, model_dir, compressOutput, softFailed>>

FramesNext ==
    \/ UploadCreate
    \/ \E j \in JobIds : UploadWriteFile(j)
    \/ \E j \in JobIds : UploadValidateOf(j, DurationVideos)
    \/ \E j \in JobIds : UploadUnlink(j)
    \/ \E j \in JobIds : ProcessStart(j)
    \/ \E j \in JobIds : ProcessExtractFramesAtPreset(j)

FramesSpec == Init /\ [][FramesNext]_vars

----------------------------------------------------------------------------
\* Properties.

Terminal == {COMPLETED, ERROR}

\* The records to which the state properties apply: the live jobs and, when
\* jobs.json is intact, the records in it.
Records ==
    {jobs[j] : j \in DOMAIN jobs}
    \cup (IF file.intact
          THEN {LoadedJob(file.data[j]) : j \in {k \in DOMAIN file.data : Loadable(file.data[k])}}
          ELSE {})

NonEmpty(opt) == opt /= None /\ opt[1] /= ""

Last(seq) == seq[Len(seq)]

\* The position of a status in the order of JobStatus.
Rank(status) == CHOOSE i \in 1..Len(JobStatus) : JobStatus[i] = status

StageOrder == <<"extract_frames", "train_longsplat", "export_to_ply", "compress_ply_gzip", "export_to_obj">>
StageRank(stage) == CHOOSE i \in 1..Len(StageOrder) : StageOrder[i] = stage

\* C1: once a job's status is Completed or Error, no step of the upload
\* handler or of process_job and no store update changes it, in memory or in
\* the durable file.
TerminalStatusNeverChanges ==
    [][ /\ \A j \in DOMAIN jobs :
            jobs[j].status \in Terminal => jobs'[j].status = jobs[j].status
        /\ (file.intact /\ file'.intact) =>
            \A j \in DOMAIN file.data :
                file.data[j].status \in Terminal => file'.data[j].status = file.data[j].status
      ]_vars

\* C1 witness: a store update was made for a job already in Error (the
\* handler's except clause after the validation error was saved).
UpdatedAfterTerminal ==
    \E j \in DOMAIN jobs :
        /\ Len(hist[j]) >= 2
        /\ hist[j][Len(hist[j]) - 1][1] = ERROR
        /\ Last(hist[j])[1] = ERROR

\* C2: after a hard stage failed the job is in Error with a non-empty
\* error_message, process_job has returned, and no stage after the failed one
\* was invoked.
HardFailureHaltsPipeline ==
    \A j \in JobIds :
        failedStage[j] /= "none" =>
            /\ j \in DOMAIN jobs
            /\ jobs[j].status = ERROR
            /\ NonEmpty(jobs[j].error_message)
            /\ pc[j] = "process_returned"
            /\ \A i \in 1..Len(invoked[j]) : StageRank(invoked[j][i]) <= StageRank(failedStage[j])

\* C2 witness: training failed after frame extraction succeeded.
TrainingFailed ==
    \E j \in JobIds :
        /\ failedStage[j] = "train_longsplat"
        /\ invoked[j] = <<"extract_frames", "train_longsplat">>

\* C3: process_job never raises to its caller, and the job it returns is
\* Completed or Error, whatever stage or save failed.
ProcessJobAlwaysReturnsTerminal ==
    \A j \in JobIds :
        /\ pc[j] /= "process_raised"
        /\ pc[j] = "process_returned" => jobs[j].status \in Terminal

\* C3 witness: a stage failed, the save made by the except clause failed too
\* (jobs.json is left truncated), and process_job has returned.
ReturnedDespiteSaveFailure ==
    \E j \in JobIds :
        /\ pc[j] = "process_returned"
        /\ failedStage[j] /= "none"
        /\ ~file.intact

ObjFailureIsSoft ==
    \A j \in JobIds :
        "export_to_obj" \in softFailed[j] =>
            /\ jobs[j].status = COMPLETED
            /\ jobs[j].model_filename = Some(ToString(j) \o ".ply")
            /\ jobs[j].model_url = Some("/static/models/" \o ToString(j) \o ".ply")
            /\ jobs[j].error_message = None
            /\ <<j, "ply">> \in DOMAIN produced

\* C5 witness: the OBJ export failed for a job whose PLY was exported.
ObjExportFailed ==
    \E j \in JobIds : "export_to_obj" \in softFailed[j] /\ <<j, "ply">> \in DOMAIN produced /\ pc[j] = "process_returned"

\* C6 as stated: when compression failed, the completed job has model_url set
\* and model_url_compressed unset; a job references no compressed file that
\* was not produced.
CompressionFailureLeavesOnlyPrimary ==
    \A j \in DOMAIN jobs :
        /\ ("compress_ply_gzip" \in softFailed[j] /\ pc[j] = "process_returned") =>
                /\ jobs[j].status = COMPLETED
                /\ jobs[j].model_url /= None
                /\ jobs[j].model_url_compressed = None
        /\ jobs[j].model_url_compressed /= None => <<j, "gz">> \in DOMAIN produced

\* C7: error_message is present exactly when status is Error, for every live
\* job and every record of the durable file.
ErrorMessageIffError ==
    \A job \in Records : (job.error_message /= None) <=> (job.status = ERROR)

\* C7 witness: a job in Error (with its message) is both live and in the file.
ErrorJobStored ==
    \E j \in DOMAIN jobs :
        /\ jobs[j].status = ERROR
        /\ file.intact /\ j \in DOMAIN file.data /\ file.data[j] = model_dump(jobs[j])

\* C8: a job in Error carries a non-empty error_message, whether the upload
\* handler or process_job put it there.
ErrorCarriesNonEmptyMessage ==
    \A job \in Records : job.status = ERROR => NonEmpty(job.error_message)

\* C8 witness: a job rejected by validation, its message the joined errors.
RejectedWithJoinedErrors ==
    \E j \in DOMAIN jobs :
        /\ pc[j] = "handler_raised_400"
        /\ jobs[j].status = ERROR
        /\ jobs[j].validation /= None
        /\ jobs[j].error_message = Some(Join(jobs[j].validation[1].errors, "; "))
        /\ Len(jobs[j].validation[1].errors) = 2

\* C9: progress stays within [0.0, 1.0] and never decreases from one store
\* update to the next while the job is not in a terminal state.
ProgressMonotone ==
    \A j \in JobIds :
        /\ \A i \in 1..Len(hist[j]) : hist[j][i][2] >= 0 /\ hist[j][i][2] <= 100
        /\ \A i \in 1..(Len(hist[j]) - 1) :
            hist[j][i][1] \notin Terminal => hist[j][i + 1][2] >= hist[j][i][2]
        /\ j \in DOMAIN jobs => jobs[j].progress >= 0 /\ jobs[j].progress <= 100

\* C9 witness: a completed job, its progress raised at every pipeline step.
ProgressReachedOne ==
    \E j \in DOMAIN jobs : jobs[j].progress = 100 /\ Len(hist[j]) = 9

\* The updates made from the moment process_job was scheduled: hist from its
\* last Uploaded entry on.
LastUploaded(h) == CHOOSE k \in 1..Len(h) : h[k][1] = UPLOADED /\ \A m \in (k + 1)..Len(h) : h[m][1] /= UPLOADED
PersistedByPipeline(j) == SubSeq(hist[j], LastUploaded(hist[j]), Len(hist[j]))

RanWithoutFailure(j) == j \in DOMAIN jobs /\ jobs[j].status = COMPLETED /\ softFailed[j] = {}

\* C10 as stated: a job that ran without failure persisted exactly
\* Uploaded(0.0), ExtractingFrames(0.1), Training(0.3), Exporting(0.85),
\* Compressing(0.92), Completed(1.0).
PersistedSequenceAsStated ==
    \A j \in JobIds :
        RanWithoutFailure(j) =>
            PersistedByPipeline(j) =
                << <<UPLOADED, 0>>, <<EXTRACTING_FRAMES, 10>>, <<TRAINING, 30>>, <<EXPORTING, 85>>,
                   <<COMPRESSING, 92>>, <<COMPLETED, 100>> >>

\* The progress values a status is persisted with.
Checkpoints(status) ==
    CASE status = UPLOADED          -> {0}
      [] status = VALIDATING        -> {0}
      [] status = EXTRACTING_FRAMES -> {10}
      [] status = TRAINING          -> {30}
      [] status = EXPORTING         -> {85}
      [] status = COMPRESSING       -> {92, 95}
      [] status = COMPLETED         -> {100}
      [] status = ERROR             -> 0..100

\* C10 amended: a job that ran without failure persisted exactly
\* Uploaded(0.0), ExtractingFrames(0.1), Training(0.3), Exporting(0.85),
\* Compressing(0.92), Compressing(0.95), Completed(1.0); every update persists
\* its status with a checkpoint of that status, Compressing having the two.
PersistedSequenceWithObjCheckpoint ==
    \A j \in JobIds :
        /\ \A i \in 1..Len(hist[j]) : hist[j][i][2] \in Checkpoints(hist[j][i][1])
        /\ RanWithoutFailure(j) =>
            PersistedByPipeline(j) =
                << <<UPLOADED, 0>>, <<EXTRACTING_FRAMES, 10>>, <<TRAINING, 30>>, <<EXPORTING, 85>>,
                   <<COMPRESSING, 92>>, <<COMPRESSING, 95>>, <<COMPLETED, 100>> >>

\* C10 witness: a job completed with no stage failure and no failed save.
CompletedWithoutFailure ==
    \E j \in JobIds : RanWithoutFailure(j) /\ faults = 0 /\ jobs[j].model_url_compressed /= None

----------------------------------------------------------------------------
\* The job store: persistence, restarts and its interface (C11 - C20).

\* C11: with COMPRESS_OUTPUT false no job is ever saved with status
\* Compressing.
NeverCompressingWhenDisabled ==
    ~compressOutput =>
        \A j \in JobIds : \A i \in 1..Len(hist[j]) : hist[j][i][1] /= COMPRESSING

\* The snapshot _save_jobs writes of the store as it is.
Snapshot == [id \in DOMAIN jobs |-> model_dump(jobs[id])]

\* C12: a create_job or update_job that returned without raising has left
\* the snapshot of the store in jobs.json.
ReturnedOnlyIfWritten ==
    (last.op \in {"create_job", "update_job"} /\ last.raised = None) =>
        (file.intact /\ file.data = Snapshot)

\* C13: after a crash inside a save, jobs.json is a complete snapshot.
CrashLeavesCompleteSnapshot ==
    last.op = "crash" => file.intact

\* The entries of jobs.json that lines 30-33 reject.
Malformed == {id \in DOMAIN file.data : ~Loadable(file.data[id])}

\* C14: after startup from a file with one malformed entry, the store holds
\* every well-formed entry of the file and only those.
LoadSkipsOnlyMalformedEntry ==
    (last.op = "load" /\ file.intact /\ Cardinality(Malformed) = 1) =>
        DOMAIN jobs = DOMAIN file.data \ Malformed

\* C15: a job id that has a record in jobs.json has one after every step.
PersistedJobStaysPersisted ==
    [][\A id \in StoreIds :
          (file.intact /\ id \in DOMAIN file.data) => (file'.intact /\ id \in DOMAIN file'.data)]_vars

UnknownIdIsNotFound ==
    [][/\ (last'.op = "update_job" /\ last'.id \notin DOMAIN jobs) =>
            (last'.raised = Some("NotFound") /\ jobs' = jobs)
       /\ \A id \in StoreIds \ DOMAIN jobs : get_job(id) = None]_vars

\* C19: create_job returns a job under an id the store did not have, Uploaded
\* with progress 0.0; the store then has that one record more, one per id, and
\* every job it had is unchanged.
CreateAddsOneFreshJob ==
    [][last'.op = "create_job" =>
          /\ last'.id \notin DOMAIN jobs
          /\ last'.ret = Some(jobs'[last'.id])
          /\ jobs'[last'.id].job_id = last'.id
          /\ jobs'[last'.id].status = UPLOADED
          /\ jobs'[last'.id].progress = 0
          /\ DOMAIN jobs' = DOMAIN jobs \cup {last'.id}
          /\ Cardinality(DOMAIN jobs') = Cardinality(DOMAIN jobs) + 1
          /\ \A id \in DOMAIN jobs : jobs'[id] = jobs[id]]_vars

\* C19 witness: create_job has just returned the second job of a store whose
\* first job had been updated.
CreatedSecondJob ==
    /\ last.op = "create_job"
    /\ Cardinality(DOMAIN jobs) = 2
    /\ \E id \in DOMAIN jobs : jobs[id].status = COMPLETED

\* C20: the id and the preset of a job, in the store and in jobs.json, are
\* after every step what they were before it.
IdAndPresetNeverChange ==
    [][/\ \A j \in DOMAIN jobs :
            /\ j \in DOMAIN jobs'
            /\ jobs'[j].job_id = jobs[j].job_id
            /\ jobs'[j].quality_preset = jobs[j].quality_preset
       /\ (file.intact /\ file'.intact) =>
            \A j \in DOMAIN file.data :
                /\ j \in DOMAIN file'.data
                /\ file'.data[j].job_id = file.data[j].job_id
                /\ file'.data[j].quality_preset = file.data[j].quality_preset]_vars

\* The exported artifact of job j exists.
Exported(j) == <<j, "ply">> \in DOMAIN produced

\* The search order as stated: model.ply at the root of the tree, else the
\* files named point_cloud.ply, else the files with the extension .ply.
StatedCandidates(tree) ==
    IF <<"model.ply">> \in tree THEN {<<"model.ply">>}
    ELSE IF RGlobName(tree, "point_cloud.ply") /= {} THEN RGlobName(tree, "point_cloud.ply")
    ELSE RGlob(tree, ".ply")

\* C27: the file export_to_ply copies is one of the candidates of the first
\* of these steps that finds a file: (1) model.ply at the root of the output
\* directory, (2) the files named point_cloud.ply anywhere below it, (3) the
\* files with the extension .ply anywhere below it.
ResolverFollowsStatedOrder ==
    \A j \in JobIds : Exported(j) => produced[<<j, "ply">>] \in StatedCandidates(model_dir[j])

Digits == "0123456789"

RECURSIVE ParseInt(_)
\* int(text) of a string of decimal digits
ParseInt(text) ==
    IF text = "" THEN 0
    ELSE ParseInt(SubSeq(text, 1, Len(text) - 1)) * 10
         + (CHOOSE d \in 0..9 : SubSeq(Digits, d + 1, d + 1) = SubSeq(text, Len(text), Len(text)))

\* The iteration a file below point_cloud/iteration_<n>/ belongs to.
Iteration(path) == ParseInt(SubSeq(path[2], Len("iteration_") + 1, Len(path[2])))

\* C28: the file export_to_ply copies is the last of the candidates of its
\* search in the order of the paths, and when the candidates lie in
\* zero-padded iteration directories it is one of the highest iteration.
ResolverReturnsLastCandidate ==
    \A j \in JobIds : Exported(j) =>
        LET chosen == produced[<<j, "ply">>]
            candidates == PlyFiles(model_dir[j])
        IN  /\ chosen \in candidates
            /\ \A q \in candidates : q = chosen \/ PathLess(q, chosen)
            /\ (\A q \in candidates : Len(q) = 3) =>
                   \A q \in candidates : Iteration(q) <= Iteration(chosen)

\* C28 witness: the export found point_cloud.ply under iteration_001000 and
\* under iteration_005000, and no PLY at the root, and copied a file.
ExportedAmongIterations ==
    /\ Exported(1)
    /\ PlyFiles(model_dir[1]) = { <<"point_cloud", "iteration_001000", "point_cloud.ply">>,
                                  <<"point_cloud", "iteration_005000", "point_cloud.ply">> }

\* C29: once export_to_ply has run for a job, it has raised "No PLY file
\* found" exactly if the output tree has no file with the extension .ply;
\* when it returned, <job_id>.ply exists and is a copy of a file of the tree;
\* when it raised, the job is in Error.
NotFoundIffNoCandidate ==
    \A j \in JobIds : "export_to_ply" \in Values(invoked[j]) =>
        /\ (failedStage[j] = "export_to_ply" /\ jobs[j].error_message = Some(ExceptionStr("not_found")))
               <=> RGlob(model_dir[j], ".ply") = {}
        /\ failedStage[j] /= "export_to_ply" =>
               (Exported(j) /\ produced[<<j, "ply">>] \in model_dir[j])
        /\ failedStage[j] = "export_to_ply" => (~Exported(j) /\ jobs[j].status = ERROR)

\* C29 witness: the export ran on a tree whose only PLY files are nested and
\* not named point_cloud.ply, and returned.
ExportedByThirdSearch ==
    /\ Exported(1)
    /\ Glob(model_dir[1], ".ply") = {}
    /\ RGlobName(model_dir[1], "point_cloud.ply") = {}

\* C30: the step that runs compress_ply_gzip leaves <job_id>.ply in place with
\* the contents it had, and the only file it may add is <job_id>.ply.gz.
CompressionKeepsPrimary ==
    [][\A j \in JobIds : (pc[j] = "compress" /\ pc'[j] /= "compress") =>
          /\ Exported(j)'
          /\ produced'[<<j, "ply">>] = produced[<<j, "ply">>]
          /\ DOMAIN produced' \subseteq DOMAIN produced \cup {<<j, "gz">>}]_vars

\* C30 witness: the compression has written <job_id>.ply.gz from an artifact
\* copied from an iteration directory.
CompressedNextToPrimary ==
    /\ <<1, "gz">> \in DOMAIN produced
    /\ Exported(1)
    /\ Len(produced[<<1, "ply">>]) = 3

\* C22: every create_job and update_job, whatever the calls of other jobs
\* around it, leaves the job passed in as the store's record of its id,
\* leaves the record of every other job as it was, and leaves jobs.json with
\* the current record of every job of the store.
EachJobKeepsItsLatestUpdate ==
    [][(last'.op \in {"create_job", "update_job"} /\ last'.raised = None) =>
          /\ last'.id \in DOMAIN jobs'
          /\ last'.op = "update_job" =>
                 [jobs'[last'.id] EXCEPT !.updated_at = last'.arg[1].updated_at] = last'.arg[1]
          /\ \A id \in DOMAIN jobs \ {last'.id} : id \in DOMAIN jobs' /\ jobs'[id] = jobs[id]
          /\ file'.intact
          /\ \A id \in DOMAIN jobs' :
                 id \in DOMAIN file'.data /\ file'.data[id] = model_dump(jobs'[id])]_vars

\* C21: while a child process is running no coroutine holds the thread of
\* the event loop, so that a status query and the steps of other jobs can run.
NoStepHoldsThreadDuringChild ==
    \A p \in 1..Len(procs) : procs[p].state = "running" => thread = None

\* C23: once a supervisor has reported the timeout of a command, the child
\* process it started for that command is not running.
TimedOutChildIsTerminated ==
    \A p \in 1..Len(procs) : procs[p].cause = "timeout" => procs[p].state /= "running"

\* The commands run under run_command and under the supervisor of the training.
Supervised == {"ffmpeg", "train.py"}

\* C24: a supervised command that exited with a non-zero code is reported by
\* CalledProcessError and one that ran out of time by TimeoutError, never the
\* one as the other.
ExitErrorAndTimeoutAreDistinct ==
    \A p \in 1..Len(procs) : procs[p].cmd \in Supervised =>
        /\ procs[p].cause = "exit_nonzero" => procs[p].report = "CalledProcessError"
        /\ procs[p].cause = "timeout" => procs[p].report = "TimeoutError"

\* C25: the environment of a supervised command has every variable of
\* SUBPROCESS_ENV the caller did not set, with its value there, and every
\* variable the caller set, with the caller's value.
ChildEnvIsBaselineWithOverrides ==
    \A p \in 1..Len(procs) : procs[p].cmd \in Supervised =>
        LET overrides == IF procs[p].overrides = None THEN <<>> ELSE procs[p].overrides[1]
            env == procs[p].env
        IN  /\ \A k \in DOMAIN SUBPROCESS_ENV \ DOMAIN overrides :
                   k \in DOMAIN env /\ env[k] = SUBPROCESS_ENV[k]
            /\ \A k \in DOMAIN overrides : k \in DOMAIN env /\ env[k] = overrides[k]

\* C26: when process_job has stored an error because the command of a stage
\* exited with a non-zero code, the message is not the text process_job raises
\* itself after train_longsplat returned False.
ErrorMessageCarriesProcessDiagnostic ==
    \A p \in 1..Len(procs) :
        (procs[p].cmd \in Supervised /\ procs[p].cause = "exit_nonzero") =>
            /\ tasks[procs[p].owner].error_message /= None
            /\ tasks[procs[p].owner].error_message /= Some(ExceptionStr("train_false"))

\* C31: when the upload handler has recorded the rejection of a video, no
\* child process has been started for that upload.
RejectedWithoutSubprocess ==
    (tasks["upload_video"].at = "done" /\ tasks["upload_video"].error_message /= None) =>
        \A p \in 1..Len(procs) : procs[p].owner /= "upload_video"

\* The jobs whose video validate_video has rejected.
Rejected == {j \in DOMAIN jobs : jobs[j].validation /= None /\ ~jobs[j].validation[1].valid}

\* C32: a job whose video validate_video rejected is in Error with the
\* validation errors, joined, as its error_message; process_job is not
\* scheduled for it and none of its stages has run.
RejectedJobEndsInErrorUnprocessed ==
    \A j \in Rejected :
        /\ jobs[j].status = ERROR
        /\ jobs[j].error_message = Some(Join(jobs[j].validation[1].errors, "; "))
        /\ pc[j] \in {"unlink", "handler_raised_400", "handler_raised_500"}
        /\ invoked[j] = <<>>

\* C33: every command a stage of the pipeline runs is started under a ceiling
\* timeout, and a command stopped at its ceiling leaves the pipeline finished
\* with an error.
EveryStageCommandHasCeiling ==
    \A p \in 1..Len(procs) : procs[p].cmd \in Supervised =>
        /\ procs[p].timeout /= None
        /\ procs[p].cause = "timeout" =>
               (tasks[procs[p].owner].at = "done" /\ tasks[procs[p].owner].error_message /= None)

\* C34: the restart after a crash gives every job it loads the status that
\* jobs.json held when the process stopped, leaves jobs.json as it was and
\* leaves no coroutine of a job running; from then on no stage is called and
\* no status changes for a job that was loaded.
RestartKeepsPersistedStatus ==
    [][/\ (last'.op = "load" /\ last.op /= "load") =>
            /\ file' = file
            /\ \A j \in JobIds : pc'[j] \in {"none", "not_running"}
            /\ \A j \in DOMAIN jobs' :
                   file.intact /\ j \in DOMAIN file.data /\ jobs'[j].status = file.data[j].status
       /\ \A j \in JobIds : pc[j] = "not_running" =>
            /\ pc'[j] = "not_running"
            /\ invoked'[j] = invoked[j]
            /\ hist'[j] = hist[j]
            /\ (j \in DOMAIN jobs /\ j \in DOMAIN jobs') => jobs'[j].status = jobs[j].status]_vars

\* C34 witness: the process stopped while a job was training and was started
\* again; the job is back in the store as Training and nothing runs for it.
ReloadedMidTraining ==
    /\ last.op = "load"
    /\ \E j \in DOMAIN jobs : jobs[j].status = TRAINING /\ pc[j] = "not_running"

\* C35: every job, in the store and in jobs.json, is Completed exactly if its
\* model_filename and model_url are set; in every other status both are None.
CompletedIffArtifactReference ==
    \A job \in Records :
        /\ job.status = COMPLETED => (job.model_filename /= None /\ job.model_url /= None)
        /\ job.status /= COMPLETED => (job.model_filename = None /\ job.model_url = None)

\* C35 witness: a job completed and saved with the reference to <job_id>.ply.
CompletedWithArtifactReference ==
    \E j \in DOMAIN jobs :
        /\ jobs[j].status = COMPLETED
        /\ jobs[j].model_filename = Some(ToString(j) \o ".ply")
        /\ jobs[j].model_url = Some("/static/models/" \o ToString(j) \o ".ply")
        /\ file.intact /\ j \in DOMAIN file.data /\ file.data[j].status = COMPLETED

\* The status and the progress checkpoint of each stage function that has one.
StageEntry ==
    [extract_frames    |-> <<EXTRACTING_FRAMES, 10>>,
     train_longsplat   |-> <<TRAINING, 30>>,
     export_to_ply     |-> <<EXPORTING, 85>>,
     compress_ply_gzip |-> <<COMPRESSING, 92>>]

\* C36: at the step that calls extract_frames, train_longsplat, export_to_ply
\* or compress_ply_gzip for a job, the latest update_job of that job has
\* stored the status and the progress checkpoint of that stage.
StageRunsAfterItsStatusIsStored ==
    [][\A j \in JobIds :
          (invoked'[j] /= invoked[j] /\ Last(invoked'[j]) \in DOMAIN StageEntry) =>
              /\ Len(invoked'[j]) = Len(invoked[j]) + 1
              /\ Last(hist[j]) = StageEntry[Last(invoked'[j])]
              /\ <<jobs[j].status, jobs[j].progress>> = StageEntry[Last(invoked'[j])]]_vars

\* C36 witness: the four stages have been called for a job, one after another.
FourStagesCalled ==
    \E j \in JobIds :
        /\ Len(invoked[j]) >= 4
        /\ SubSeq(invoked[j], 1, 4) = <<"extract_frames", "train_longsplat", "export_to_ply", "compress_ply_gzip">>

\* The position of process_job at which each stage function is awaited.
StagePosition ==
    [extract_frames    |-> "extract_frames",
     train_longsplat   |-> "train",
     export_to_ply     |-> "export_ply",
     compress_ply_gzip |-> "compress",
     export_to_obj     |-> "export_obj"]

\* C37: for each job at most one stage runs at a time and process_job is
\* started at most once.  Every step runs at most one stage of a job, the one
\* process_job is waiting at, and the stage has returned or raised when the
\* step ends; that stage comes after every stage the job ran before, so no stage
\* runs twice; process_job is scheduled only by the upload handler's validation
\* step, for a job that ran no stage, and once it has left the queue it is
\* never scheduled again.
OneStageAtATimeStartedOnce ==
    [][\A j \in JobIds :
          /\ invoked'[j] /= invoked[j] =>
                /\ Len(invoked'[j]) = Len(invoked[j]) + 1
                /\ SubSeq(invoked'[j], 1, Len(invoked[j])) = invoked[j]
                /\ \A i \in 1..Len(invoked[j]) : StageRank(invoked[j][i]) < StageRank(Last(invoked'[j]))
                /\ pc[j] = StagePosition[Last(invoked'[j])]
                /\ pc'[j] /= pc[j]
          /\ (pc'[j] = "scheduled" /\ pc[j] /= "scheduled") =>
                /\ pc[j] = "validate"
                /\ invoked[j] = <<>>
                /\ \A i \in 1..Len(hist[j]) : hist[j][i][1] /= EXTRACTING_FRAMES
          /\ (pc[j] = "scheduled" /\ pc'[j] /= "scheduled") =>
                /\ pc'[j] = "extract_frames"
                /\ invoked'[j] = <<>>
                /\ \A i \in 1..Len(hist[j]) : hist[j][i][1] /= EXTRACTING_FRAMES]_vars

\* C37 witness: a job ran its five stages, each once and in order, and
\* process_job returned after one start.
FiveStagesOnce ==
    \E j \in JobIds :
        /\ invoked[j] = StageOrder
        /\ pc[j] = "process_returned"
        /\ Cardinality({i \in 1..Len(hist[j]) : hist[j][i][1] = EXTRACTING_FRAMES}) = 1

\* The positions at which upload_video has returned or raised for its job.
HandlerRaised == {"handler_raised_400", "handler_raised_500"}
HandlerRunning == {"none", "write_file", "validate", "unlink"}

\* C38: when upload_video finishes for a job it created, the job is Uploaded
\* with process_job scheduled (the handler returned) or in Error with a
\* non-empty error_message (the handler raised); from then on the job is never
\* in Validating.
FinishedUploadNeverLeavesValidating ==
    [][\A j \in DOMAIN jobs' :
          pc'[j] \notin HandlerRunning =>
              /\ jobs'[j].status /= VALIDATING
              /\ pc[j] \in HandlerRunning =>
                    \/ /\ pc'[j] = "scheduled"
                       /\ jobs'[j].status = UPLOADED
                       /\ jobs'[j].error_message = None
                    \/ /\ pc'[j] \in HandlerRaised
                       /\ jobs'[j].status = ERROR
                       /\ NonEmpty(jobs'[j].error_message)
              /\ pc'[j] \in HandlerRaised =>
                    /\ jobs'[j].status = ERROR
                    /\ NonEmpty(jobs'[j].error_message)
                    /\ invoked'[j] = <<>>]_vars

\* C38 witness: the handler raised HTTP 500 out of its except clause for a job
\* it had put in Validating.
RaisedAfterValidating ==
    \E j \in DOMAIN jobs :
        /\ pc[j] = "handler_raised_500"
        /\ \E i \in 1..Len(hist[j]) : hist[j][i][1] = VALIDATING
        /\ jobs[j].status = ERROR

\* C39: every video that passed validate_video yields at least 10 frames when
\* extract_frames samples it at the rate of the job's preset.
ValidatedVideoYieldsTenFrames ==
    \A j \in DOMAIN jobs :
        (jobs[j].validation /= None /\ jobs[j].validation[1].valid /\ <<j, "frames">> \in DOMAIN produced) =>
            Len(produced[<<j, "frames">>]) >= 10

====
